---- MODULE Spec2Model ----
(***************************************************************************)
(* Model of ddquint/visualization/plate_plots.py: create_composite_image   *)
(* and its helpers.  One call of create_composite_image is a run of the    *)
(* state machine: the emptiness check, the per-result loop of              *)
(* _generate_well_images, _create_composite_figure, and the finally block  *)
(* (_cleanup_temp_files).  What the file system, pandas and matplotlib     *)
(* answer is chosen nondeterministically where the code asks them.         *)
(***************************************************************************)
EXTENDS Integers, Sequences, FiniteSets, TLC

\* Largest length of the results list in Spec.
MaxResults == 2

\* Python None, also a key that is absent and read with .get(key).
None == "None"
\* A flag key that is absent and read with .get(key, False).
Absent == "Absent"

Range(s) == {s[k] : k \in DOMAIN s}

Max(S) == CHOOSE m \in S : \A n \in S : n <= m

-----------------------------------------------------------------------------
(* Configuration (ddquint/config, not part of the sources at hand).        *)

PLATE_ROWS == <<"A", "B", "C", "D", "E", "F", "G", "H">>

PLATE_COLS == <<"1", "2", "3", "4", "5", "6", "7", "8", "9", "10", "11", "12">>

\* '{row}{col:02d}'
WELL_FORMAT(row, col) ==
    row \o (IF col < 10 THEN "0" \o ToString(col) ELSE ToString(col))

\* int(s) for the decimal strings of the column labels.
IntOf(s) == CHOOSE n \in 0..99 : ToString(n) = s

\* GridSpec(8, 12, ...)
GridRows == 8
GridCols == 12
\* fig.axes[i * 12]
LabelStride == 12

-----------------------------------------------------------------------------
(* Files.  A path is a string; disk is the set of paths that exist.        *)

GraphOk == "Graphs/ok.png"
GraphCorrupt == "Graphs/corrupt.png"
GraphMissing == "Graphs/missing.png"

\* The result graphs on disk when the call starts (written upstream).
InitialDisk == {GraphOk, GraphCorrupt}

\* Files plt.imread cannot decode.
Unreadable == {GraphCorrupt}

\* os.path.join(graphs_dir, f"{result['well']}_temp.png")
TempPath(well) == "Graphs/" \o well \o "_temp.png"

AllWells ==
    {WELL_FORMAT(PLATE_ROWS[i], j) : i \in DOMAIN PLATE_ROWS, j \in 1..GridCols}

TempPaths == {TempPath(w) : w \in AllWells}

-----------------------------------------------------------------------------
(* Result records.  temp_graph_path = None stands for "no such key".       *)

Result(well, graph_path, sample_name, clustered, bz, an) ==
    [well |-> well, graph_path |-> graph_path, sample_name |-> sample_name,
     clustered |-> clustered, has_buffer_zone |-> bz, has_aneuploidy |-> an,
     temp_graph_path |-> None]

\* Results of the multi-well runs: wells, graphs and clustering vary.
PlateResults ==
    {Result(w, g, None, c, Absent, Absent) :
        w \in {None, "A01", "H12"}, g \in {GraphMissing, GraphOk},
        c \in BOOLEAN}

\* Results of the single-well runs: every field varies.
WellResult ==
    {Result(w, g, s, c, bz, an) :
        w \in {None, "B03"}, g \in {None, GraphMissing, GraphOk, GraphCorrupt},
        s \in {None, "Sample7"}, c \in BOOLEAN,
        bz \in {Absent, "False", "True"}, an \in {Absent, "False", "True"}}

SeqsUpTo(S, n) == UNION {[1..m -> S] : m \in 0..n}

\* result.get(key, False) in a condition
Flag(result, key) == IF result[key] = Absent THEN FALSE ELSE result[key] = "True"

-----------------------------------------------------------------------------
VARIABLES
    pc,            \* where create_composite_image is
    results,       \* the caller's list of result dictionaries
    results0,      \* results as passed in
    idx,           \* position of the loop of _generate_well_images
    temp_files,    \* the list temp_files
    disk,          \* paths that exist
    gen,           \* per result, how its iteration of the loop ended
    axes,          \* fig.axes: the cells in creation order
    labels,        \* the plate labels and the cell each is aligned with
    saved,         \* the composite was saved at output_path
    pending,       \* the call that raised out of the try block, or None
    cleanup_ran,   \* _cleanup_temp_files was called
    outcome        \* how the call ended

vars == <<pc, results, results0, idx, temp_files, disk, gen, axes, labels,
          saved, pending, cleanup_ran, outcome>>

NoLabels == [rows |-> <<>>, cols |-> <<>>]

InitCommon ==
    /\ pc = "start"
    /\ results0 = results
    /\ idx = 0
    /\ temp_files = <<>>
    /\ disk = InitialDisk
    /\ gen = <<>>
    /\ axes = <<>>
    /\ labels = NoLabels
    /\ saved = FALSE
    /\ pending = None
    /\ cleanup_ran = FALSE
    /\ outcome = "running"

Init ==
    /\ results \in SeqsUpTo(PlateResults, MaxResults)
    /\ InitCommon

InitWell ==
    /\ results \in SeqsUpTo(WellResult, 1)
    /\ InitCommon

-----------------------------------------------------------------------------
(* create_composite_image, lines 42-51                                     *)

\* The emptiness check placed inside the try block.
RaiseValueErrorInTry ==
    /\ pc = "start"
    /\ results = <<>>
    /\ pc' = "done"
    /\ cleanup_ran' = TRUE
    /\ outcome' = "VisualizationError"
    /\ UNCHANGED <<results, results0, idx, temp_files, disk, gen, axes, labels,
                   saved, pending>>

RaiseValueError ==
    /\ pc = "start"
    /\ results = <<>>
    /\ pc' = "done"
    /\ outcome' = "ValueError"
    /\ UNCHANGED <<results, results0, idx, temp_files, disk, gen, axes, labels,
                   saved, pending, cleanup_ran>>

EnterTry ==
    /\ pc = "start"
    /\ results # <<>>
    /\ pc' = "generate"
    /\ idx' = 1
    /\ temp_files' = <<>>
    /\ UNCHANGED <<results, results0, disk, gen, axes, labels, saved, pending,
                   cleanup_ran, outcome>>

-----------------------------------------------------------------------------
(* _generate_well_images: one action per way an iteration can end          *)

InLoop == pc = "generate" /\ idx <= Len(results)

\* The iteration ends without a temp image, for the reason why.
SkipWell(why) ==
    /\ gen' = Append(gen, why)
    /\ idx' = idx + 1
    /\ UNCHANGED <<pc, results, results0, temp_files, disk, axes, labels, saved,
                   pending, cleanup_ran, outcome>>

\* if not result.get('well'): continue
SkipNoWell ==
    /\ InLoop
    /\ results[idx].well = None
    /\ SkipWell("no well")

\* _get_data_file_path returned None (no graph_path or filename), or the
\* file it names does not exist.
SkipNoDataFile ==
    /\ InLoop
    /\ results[idx].well # None
    /\ SkipWell("no data file")

\* The data file exists from here on, so graph_path and filename are set.
DataFileFound ==
    /\ InLoop
    /\ results[idx].well # None
    /\ results[idx].graph_path # None

\* _load_and_clean_data returned None: no header row, no amplitude columns,
\* or the read failed.
SkipNoColumns ==
    /\ DataFileFound
    /\ SkipWell("no columns")

\* _validate_clustering_results: df_filtered or target_mapping is None
SkipNoClustering ==
    /\ DataFileFound
    /\ ~results[idx].clustered
    /\ SkipWell("no clustering")

\* _create_temp_well_plot without its except clause.
TempPlotFailedRaises ==
    /\ DataFileFound
    /\ results[idx].clustered
    /\ \E written \in BOOLEAN :
          disk' = IF written THEN disk \cup {TempPath(results[idx].well)}
                             ELSE disk
    /\ gen' = Append(gen, "plot failed")
    /\ pending' = "create_well_plot"
    /\ pc' = "finally"
    /\ UNCHANGED <<results, results0, idx, temp_files, axes, labels, saved,
                   cleanup_ran, outcome>>

\* _create_temp_well_plot caught an exception of os.makedirs or of
\* create_well_plot; create_well_plot may have written its file before.
TempPlotFailed ==
    /\ DataFileFound
    /\ results[idx].clustered
    /\ \E written \in BOOLEAN :
          disk' = IF written THEN disk \cup {TempPath(results[idx].well)}
                             ELSE disk
    /\ gen' = Append(gen, "plot failed")
    /\ idx' = idx + 1
    /\ UNCHANGED <<pc, results, results0, temp_files, axes, labels, saved,
                   pending, cleanup_ran, outcome>>

\* create_well_plot wrote the file; it is tracked and the result refers to it.
TempPlotCreated ==
    /\ DataFileFound
    /\ results[idx].clustered
    /\ LET temp_path == TempPath(results[idx].well) IN
          /\ disk' = disk \cup {temp_path}
          /\ temp_files' = Append(temp_files, temp_path)
          /\ results' = [results EXCEPT ![idx].temp_graph_path = temp_path]
    /\ gen' = Append(gen, "ok")
    /\ idx' = idx + 1
    /\ UNCHANGED <<pc, results0, axes, labels, saved, pending, cleanup_ran,
                   outcome>>

\* The temp files removed as soon as the loop is over.
LoopEndCleanup ==
    /\ pc = "generate"
    /\ idx > Len(results)
    /\ pc' = "composite"
    /\ disk' = disk \ Range(temp_files)
    /\ UNCHANGED <<results, results0, idx, temp_files, gen, axes, labels,
                   saved, pending, cleanup_ran, outcome>>

LoopEnd ==
    /\ pc = "generate"
    /\ idx > Len(results)
    /\ pc' = "composite"
    /\ UNCHANGED <<results, results0, idx, temp_files, disk, gen, axes, labels,
                   saved, pending, cleanup_ran, outcome>>

-----------------------------------------------------------------------------
(* _create_composite_figure and its helpers                                *)

\* A cell (an Axes): border_color = None, border_width = 0 are spines that
\* no border was applied to; src is the position in results of the record
\* the cell was populated from, 0 for none.
Cell(well, src, image, text, title, border) ==
    [well |-> well, src |-> src, image |-> image, text |-> text,
     title |-> title, border_color |-> border.color,
     border_width |-> border.width]

NoBorder == [color |-> None, width |-> 0]

\* The two flags tested in the other order.
ApplyWellBorderAneuploidyFirst(result) ==
    IF Flag(result, "has_aneuploidy")
    THEN [color |-> "#E6B8E6", width |-> 3]
    ELSE IF Flag(result, "has_buffer_zone")
         THEN [color |-> "#000000", width |-> 1]
         ELSE [color |-> "#B0B0B0", width |-> 1]

\* _apply_well_border
ApplyWellBorder(result) ==
    IF Flag(result, "has_buffer_zone")
    THEN [color |-> "#000000", width |-> 1]
    ELSE IF Flag(result, "has_aneuploidy")
         THEN [color |-> "#E6B8E6", width |-> 3]
         ELSE [color |-> "#B0B0B0", width |-> 1]

\* result.get('temp_graph_path'): no fall back to graph_path.
GraphPathOfTempOnly(result) == result.temp_graph_path

\* result.get('graph_path', result.get('temp_graph_path'))
GraphPathOfOriginalFirst(result) ==
    IF result.graph_path # None THEN result.graph_path
    ELSE result.temp_graph_path

\* result.get('temp_graph_path', result.get('graph_path'))
GraphPathOf(result) ==
    IF result.temp_graph_path # None THEN result.temp_graph_path
    ELSE result.graph_path

\* _populate_data_well, d the files that exist
PopulateDataWell(well, result, src, d) ==
    LET graph_path == GraphPathOf(result) IN
    IF graph_path # None /\ graph_path \in d
    THEN IF graph_path \in Unreadable
         THEN Cell(well, src, None, "Image Error", None, NoBorder)
         ELSE Cell(well, src, graph_path, None,
                   IF result.sample_name # None THEN result.sample_name
                   ELSE well,
                   ApplyWellBorder(result))
    ELSE Cell(well, src, None, "No Image", None, NoBorder)

\* _populate_empty_well
PopulateEmptyWell(well) ==
    Cell(well, 0, None, well, None, [color |-> "#cccccc", width |-> 1])

\* The first record of a well id kept instead of the last.
WellResultsFirst(rs) ==
    LET keyed == {k \in DOMAIN rs : rs[k].well # None} IN
    [w \in {rs[k].well : k \in keyed} |->
        CHOOSE k \in keyed : rs[k].well = w /\
            \A m \in keyed : rs[m].well = w => k <= m]

\* {r['well']: r for r in results if r.get('well') is not None}, as the
\* position of the record each well id is mapped to: a later record of the
\* same well id replaces an earlier one.
WellResults(rs) ==
    LET keyed == {k \in DOMAIN rs : rs[k].well # None} IN
    [w \in {rs[k].well : k \in keyed} |->
        Max({k \in keyed : rs[k].well = w})]

\* _create_well_subplots: the cells in the order fig.add_subplot creates them
CreateWellSubplots(row_labels, col_labels, rs, d) ==
    LET well_results == WellResults(rs)
        ncols == IntOf(col_labels[Len(col_labels)])
        Subplot(i, j) ==
            LET well == WELL_FORMAT(row_labels[i + 1], j + 1) IN
            IF well \in DOMAIN well_results
            THEN PopulateDataWell(well, rs[well_results[well]],
                                  well_results[well], d)
            ELSE PopulateEmptyWell(well)
        RowOf(i) == [j1 \in 1..ncols |-> Subplot(i, j1 - 1)]
        RECURSIVE Rows(_)
        Rows(n) == IF n = 0 THEN <<>> ELSE Rows(n - 1) \o RowOf(n - 1)
    IN Rows(Len(row_labels))

\* fig.axes[i * 8]: the number of rows taken for the length of a row.
AddPlateLabelsRowStride(ax, row_labels, col_labels) ==
    [rows |-> [i1 \in DOMAIN row_labels |->
                  <<row_labels[i1], ax[(i1 - 1) * GridRows + 1].well>>],
     cols |-> [j1 \in DOMAIN col_labels |-> <<col_labels[j1], ax[j1].well>>]]

\* _add_plate_labels: each label with the well of the cell it is placed at
AddPlateLabels(ax, row_labels, col_labels) ==
    [rows |-> [i1 \in DOMAIN row_labels |->
                  <<row_labels[i1], ax[(i1 - 1) * LabelStride + 1].well>>],
     cols |-> [j1 \in DOMAIN col_labels |-> <<col_labels[j1], ax[j1].well>>]]

\* plt.figure or GridSpec raised: no cell was created.
FigureFailed ==
    /\ pc = "composite"
    /\ pc' = "finally"
    /\ pending' = "figure"
    /\ UNCHANGED <<results, results0, idx, temp_files, disk, gen, axes, labels,
                   saved, cleanup_ran, outcome>>

\* The cells and labels are created; fig.savefig saves the file or raises.
CompositeFigure ==
    /\ pc = "composite"
    /\ axes' = CreateWellSubplots(PLATE_ROWS, PLATE_COLS, results, disk)
    /\ labels' = AddPlateLabels(axes', PLATE_ROWS, PLATE_COLS)
    /\ \E ok \in BOOLEAN :
          /\ saved' = ok
          /\ pending' = IF ok THEN None ELSE "savefig"
    /\ pc' = "finally"
    /\ UNCHANGED <<results, results0, idx, temp_files, disk, gen, cleanup_ran,
                   outcome>>

-----------------------------------------------------------------------------
(* _cleanup_temp_files, and the end of create_composite_image              *)

\* os.remove of every tracked file that exists (a removal that fails is
\* not modelled)
RemoveTempFiles(tf, d) == d \ Range(tf)

\* The references left in the results.
ClearTempRefsKept(rs) == rs

\* del result['temp_graph_path']
ClearTempRefs(rs) == [k \in DOMAIN rs |-> [rs[k] EXCEPT !.temp_graph_path = None]]

\* finally: _cleanup_temp_files; then return output_path, or raise
\* VisualizationError from the exception caught.
Finally ==
    /\ pc = "finally"
    /\ disk' = RemoveTempFiles(temp_files, disk)
    /\ results' = ClearTempRefs(results)
    /\ cleanup_ran' = TRUE
    /\ outcome' = IF pending # None THEN "VisualizationError" ELSE "returned"
    /\ pc' = "done"
    /\ UNCHANGED <<results0, idx, temp_files, gen, axes, labels, saved,
                   pending>>

Next ==
    \/ RaiseValueError
    \/ EnterTry
    \/ SkipNoWell
    \/ SkipNoDataFile
    \/ SkipNoColumns
    \/ SkipNoClustering
    \/ TempPlotFailed
    \/ TempPlotCreated
    \/ LoopEnd
    \/ FigureFailed
    \/ CompositeFigure
    \/ Finally

\* Calls on a list of up to MaxResults results.
Spec == Init /\ [][Next]_vars

\* Calls on at most one result, of any shape.
SpecWell == InitWell /\ [][Next]_vars

-----------------------------------------------------------------------------
(* Properties                                                              *)

Finished == pc = "done" /\ results0 # <<>>

\* The iterations of _generate_well_images that produced no temp image for
\* a result that has a well id.
GenFailures == {"no data file", "no columns", "no clustering", "plot failed"}

\* The cells populated from a result record.
DataCells == {n \in DOMAIN axes : axes[n].src # 0}

\* C1: when create_composite_image has finished for a non-empty results
\* list (returned or raised VisualizationError), no temp image written
\* during the call exists any more.
C1_NoTempFileLeft == Finished => disk \cap TempPaths = {}

\* C2: after the call every result dictionary has the keys and values it
\* was passed in with, and none carries temp_graph_path.
C2_ResultsRestored ==
    Finished =>
        /\ results = results0
        /\ \A k \in DOMAIN results : results[k].temp_graph_path = None

\* A call that set temp_graph_path in one of two results and then raised.
C2_Witness ==
    /\ Finished
    /\ Len(results0) = 2
    /\ "ok" \in Range(gen)
    /\ outcome = "VisualizationError"

\* C3 as stated: for a non-empty results list the call always returns
\* output_path.
C3_AlwaysReturns == Finished => outcome = "returned"

\* C3 amended: for a non-empty results list the call returns output_path
\* with the composite saved unless the figure stage itself (plt.figure,
\* GridSpec, savefig) raised, and only then it raises VisualizationError;
\* no per-well failure makes it raise.
C3_RaisesOnlyFromFigure ==
    Finished =>
        \/ outcome = "returned" /\ saved /\ pending = None
        \/ /\ outcome = "VisualizationError"
           /\ ~saved
           /\ pending \in {"figure", "savefig"}

\* Both wells failed in the loop and the call returned all the same.
C3_Witness ==
    /\ Finished
    /\ outcome = "returned"
    /\ Len(gen) = 2
    /\ gen[1] = "plot failed"
    /\ gen[2] = "no data file"

\* C4 as stated: a cell whose result got no temp image shows no well image
\* and no status border.
C4_FailedWellIsPlaceholder ==
    \A n \in DataCells :
        gen[axes[n].src] \in GenFailures =>
            axes[n].image = None /\ axes[n].border_color = None

\* C4 amended: a cell whose result got no temp image falls back to the
\* result's original graph_path: it shows that image with the status border
\* when the file exists and can be read, and no image and no status border
\* otherwise; every well id of the plate that some result carries still has
\* its cell populated from a result.
C4_FailedWellFallsBack ==
    axes # <<>> =>
        /\ \A n \in DataCells :
              LET r == results0[axes[n].src] IN
              gen[axes[n].src] \in GenFailures =>
                  IF r.graph_path \in InitialDisk \ Unreadable
                  THEN /\ axes[n].image = r.graph_path
                       /\ axes[n].border_color \in
                              {"#000000", "#E6B8E6", "#B0B0B0"}
                  ELSE /\ axes[n].image = None
                       /\ axes[n].border_color = None
                       /\ axes[n].text \in {"No Image", "Image Error"}
        /\ \A k \in DOMAIN results0 :
              results0[k].well \in AllWells =>
                  \E n \in DataCells : axes[n].well = results0[k].well

\* One well failed and fell back to its graph, the other one got its temp
\* image.
C4_Witness ==
    /\ saved
    /\ Len(gen) = 2
    /\ gen[1] = "no columns"
    /\ gen[2] = "ok"
    /\ results0[1].well # results0[2].well
    /\ \E n \in DataCells : axes[n].src = 1 /\ axes[n].image = GraphOk
    /\ \E n \in DataCells : axes[n].src = 2 /\ axes[n].image # None

\* C5: the border of a displayed data well depends on the two flags only:
\* has_buffer_zone true gives #000000 width 1 whatever has_aneuploidy is,
\* else has_aneuploidy true gives #E6B8E6 width 3, else (false or absent)
\* #B0B0B0 width 1.
C5_BorderByFlags ==
    \A n \in DataCells :
        LET r == results0[axes[n].src]
            c == axes[n]
        IN  c.image # None =>
              /\ r.has_buffer_zone = "True" =>
                    c.border_color = "#000000" /\ c.border_width = 1
              /\ r.has_buffer_zone \in {"False", Absent}
                    /\ r.has_aneuploidy = "True" =>
                    c.border_color = "#E6B8E6" /\ c.border_width = 3
              /\ r.has_buffer_zone \in {"False", Absent}
                    /\ r.has_aneuploidy \in {"False", Absent} =>
                    c.border_color = "#B0B0B0" /\ c.border_width = 1

\* A displayed well with both flags set.
C5_Witness ==
    \E n \in DataCells :
        /\ axes[n].image # None
        /\ results0[axes[n].src].has_buffer_zone = "True"
        /\ results0[axes[n].src].has_aneuploidy = "True"

\* C6: with empty results the call raises ValueError and nothing else
\* happened: no temp image, no composite, no cell, no cleanup.
C6_EmptyRaisesValueError ==
    (pc = "done" /\ results0 = <<>>) =>
        /\ outcome = "ValueError"
        /\ disk = InitialDisk
        /\ temp_files = <<>>
        /\ axes = <<>>
        /\ ~saved
        /\ ~cleanup_ran

\* The call on an empty list has ended.
C6_Witness == pc = "done" /\ results0 = <<>> /\ outcome = "ValueError"

\* C7: until the composite stage has ended every tracked temp file and
\* every temp_graph_path names a file that exists, and a cell whose result
\* got a temp image shows that image.
C7_TempFilesOutliveComposite ==
    /\ pc \in {"generate", "composite"} =>
          /\ Range(temp_files) \subseteq disk
          /\ \A k \in DOMAIN results :
                results[k].temp_graph_path # None =>
                    results[k].temp_graph_path \in disk
    /\ \A n \in DataCells :
          gen[axes[n].src] = "ok" => axes[n].image = TempPath(axes[n].well)

\* The composite was saved from a temp image that has been removed since.
C7_Witness ==
    /\ pc = "done"
    /\ saved
    /\ temp_files # <<>>
    /\ \E n \in DataCells :
          axes[n].image \in TempPaths /\ axes[n].image \notin disk

\* C8: the cells are the 96 wells of the 8x12 layout in row-major order; a
\* cell is populated from the last result that has its well id, and is a
\* placeholder with the well id and a #cccccc width-1 border when no
\* result has it.
C8_OneCellPerWell ==
    axes # <<>> =>
        /\ Len(axes) = GridRows * GridCols
        /\ \A i \in 0..(GridRows - 1), j \in 0..(GridCols - 1) :
              LET c == axes[i * GridCols + j + 1]
                  well == WELL_FORMAT(PLATE_ROWS[i + 1], j + 1)
                  having == {k \in DOMAIN results0 : results0[k].well = well}
              IN  /\ c.well = well
                  /\ having # {} => c.src = Max(having)
                  /\ having = {} =>
                        /\ c.src = 0
                        /\ c.text = well
                        /\ c.image = None
                        /\ c.border_color = "#cccccc"
                        /\ c.border_width = 1

\* Two different results share the well id A01.
C8_Witness ==
    /\ axes # <<>>
    /\ Len(results0) = 2
    /\ results0[1].well = "A01"
    /\ results0[2].well = "A01"
    /\ results0[1] # results0[2]

\* C9: a data cell takes the temp image generated for its result, else the
\* result's graph_path; image, title and status border are applied when the
\* chosen file exists and can be read; a file that cannot be read gives
\* "Image Error" and a path that is missing gives "No Image", both without
\* image, title or status border.
C9_ImageChoice ==
    \A n \in DataCells :
        LET c == axes[n]
            r == results0[c.src]
            made == gen[c.src] = "ok"
            chosen == IF made THEN TempPath(r.well) ELSE r.graph_path
            exists == made \/ chosen \in InitialDisk
        IN  IF exists /\ chosen \notin Unreadable
            THEN /\ c.image = chosen
                 /\ c.title = (IF r.sample_name # None THEN r.sample_name
                               ELSE r.well)
                 /\ c.border_color # None
                 /\ c.text = None
            ELSE /\ c.image = None
                 /\ c.title = None
                 /\ c.border_color = None
                 /\ c.text = (IF exists THEN "Image Error" ELSE "No Image")

\* A result with a readable graph whose temp image was generated.
C9_Witness ==
    \E n \in DataCells :
        /\ gen[axes[n].src] = "ok"
        /\ results0[axes[n].src].graph_path = GraphOk
        /\ axes[n].image = TempPath(axes[n].well)

\* C10: the i-th row label is placed at the cell of (row i, column 1) and
\* the j-th column label at the cell of (row A, column j+1).
C10_LabelsAtTheirCells ==
    labels # NoLabels =>
        /\ \A i \in 0..(GridRows - 1) :
              labels.rows[i + 1] =
                  <<PLATE_ROWS[i + 1], WELL_FORMAT(PLATE_ROWS[i + 1], 1)>>
        /\ \A j \in 0..(GridCols - 1) :
              labels.cols[j + 1] =
                  <<PLATE_COLS[j + 1], WELL_FORMAT(PLATE_ROWS[1], j + 1)>>

\* The labels of a saved composite.
C10_Witness ==
    /\ saved
    /\ Len(labels.rows) = GridRows
    /\ Len(labels.cols) = GridCols
    /\ labels.rows[GridRows][2] = "H01"

====
